---- MODULE Spec2Model ----
(***************************************************************************)
(* Model of src/index.js (and its typed twin src/unnamed/part_000): the    *)
(* type classifier (getType .. countRealTypes), the comparator areEqual    *)
(* and the console reporter (testBlock, test).                             *)
(*                                                                         *)
(* Three specifications share the variables:                               *)
(*   SpecTypes  one classifier function applied to one drawn input;        *)
(*   SpecEqual  one test(...) call on a drawn pair (actual, expected);     *)
(*   Spec       a script of testBlock(...) / test(...) calls run in order. *)
(***************************************************************************)
EXTENDS Integers, Sequences, FiniteSets, TLC

VARIABLES
    input,      \* SpecTypes: the argument handed to the classifier function
    op,         \* SpecTypes: the classifier function that was applied ("none" before)
    res,        \* SpecTypes: what the function returned
    actual,     \* SpecEqual: actualResult of the test(...) call
    expected,   \* SpecEqual: expectedResult of the test(...) call
    script,     \* Spec: the calls of the script, in source order
    pc,         \* position in the script: index of the next call; 0 after an uncaught throw
    out,        \* the console: the entries printed so far, oldest first
    groups      \* the console: number of console groups currently open

vars == <<input, op, res, actual, expected, script, pc, out, groups>>

----------------------------------------------------------------------------
(* Bounds of the model.                                                    *)

MaxLen == 3          \* longest array handed to the classifier functions
MaxTop == 2          \* longest top-level array handed to areEqual
MaxScript == 3       \* longest script of testBlock / test calls

----------------------------------------------------------------------------
(* JavaScript values.  A value is a record:                                *)
(*   kind      its language type (Undefined, Null, Boolean, Number,        *)
(*             String, Symbol, BigInt, Object)                             *)
(*   n, s      the payload of a primitive: n the integer of a finite       *)
(*             number / bigint / boolean (0, 1), s the text of a string    *)
(*             or the class of a number ("fin", "NaN", "+Inf", "-Inf")     *)
(*   ref       the identity of an object or symbol (0 for the others)      *)
(*   callable  an object with [[Call]]                                     *)
(*   isArray   an Array exotic object                                      *)
(*   inst      the constructors among Date, RegExp, Set, Map whose         *)
(*             prototype is on the object's prototype chain                *)
(*   elems     the elements of an array                                    *)

Val(kind, n, s, ref, callable, isArray, inst, elems) ==
    [kind |-> kind, n |-> n, s |-> s, ref |-> ref, callable |-> callable,
     isArray |-> isArray, inst |-> inst, elems |-> elems]

Undefined == Val("Undefined", 0, "", 0, FALSE, FALSE, {}, <<>>)
Null      == Val("Null", 0, "", 0, FALSE, FALSE, {}, <<>>)
Bool(b)   == Val("Boolean", IF b THEN 1 ELSE 0, "", 0, FALSE, FALSE, {}, <<>>)
Num(k)    == Val("Number", k, "fin", 0, FALSE, FALSE, {}, <<>>)
NumNaN    == Val("Number", 0, "NaN", 0, FALSE, FALSE, {}, <<>>)
PosInf    == Val("Number", 0, "+Inf", 0, FALSE, FALSE, {}, <<>>)
NegInf    == Val("Number", 0, "-Inf", 0, FALSE, FALSE, {}, <<>>)
Str(t)    == Val("String", 0, t, 0, FALSE, FALSE, {}, <<>>)
BigInt(k) == Val("BigInt", k, "", 0, FALSE, FALSE, {}, <<>>)
Sym(r)    == Val("Symbol", 0, "", r, FALSE, FALSE, {}, <<>>)
Func(r)   == Val("Object", 0, "", r, TRUE, FALSE, {}, <<>>)
Obj(r, c) == Val("Object", 0, "", r, FALSE, FALSE, c, <<>>)
Arr(r, e) == Val("Object", 0, "", r, FALSE, TRUE, {}, e)

Classes == {"Date", "RegExp", "Set", "Map"}

----------------------------------------------------------------------------
(* Built-ins of the language the source uses.                              *)

\* typeof value
TypeOf(value) ==
    CASE value.kind = "Undefined" -> "undefined"
      [] value.kind = "Null"      -> "object"
      [] value.kind = "Boolean"   -> "boolean"
      [] value.kind = "Number"    -> "number"
      [] value.kind = "String"    -> "string"
      [] value.kind = "Symbol"    -> "symbol"
      [] value.kind = "BigInt"    -> "bigint"
      [] value.kind = "Object"    -> IF value.callable THEN "function" ELSE "object"

\* isNaN(value) / Number.isNaN(value), on an argument whose typeof is "number"
IsNaN(value) == value.kind = "Number" /\ value.s = "NaN"

\* Number.isFinite(value)
IsFinite(value) == value.kind = "Number" /\ value.s = "fin"

\* Array.isArray(value)
IsArray(value) == value.kind = "Object" /\ value.isArray

\* value instanceof C
InstanceOf(value, C) == value.kind = "Object" /\ C \in value.inst

\* a === b
StrictEq(a, b) ==
    IF a.kind # b.kind THEN FALSE
    ELSE CASE a.kind = "Undefined" -> TRUE
           [] a.kind = "Null"      -> TRUE
           [] a.kind = "Number"    -> /\ ~IsNaN(a)
                                      /\ ~IsNaN(b)
                                      /\ a.s = b.s
                                      /\ a.n = b.n
           [] a.kind = "String"    -> a.s = b.s
           [] a.kind = "Boolean"   -> a.n = b.n
           [] a.kind = "BigInt"    -> a.n = b.n
           [] OTHER                -> a.ref = b.ref

----------------------------------------------------------------------------
(* The classifier.                                                         *)

getType(value) == TypeOf(value)

getTypesOfItems(arr) == [i \in 1..Len(arr) |-> getType(arr[i])]

allItemsHaveTheSameTypeSome(arr) ==
    LET types == getTypesOfItems(arr)
        firstType == IF Len(types) = 0 THEN "<undefined>" ELSE types[1]
    IN  \E i \in 1..Len(types) : types[i] = firstType

\* types[0] of an empty array is undefined; every() of an empty array is true
allItemsHaveTheSameType(arr) ==
    LET types == getTypesOfItems(arr)
        firstType == IF Len(types) = 0 THEN "<undefined>" ELSE types[1]
    IN  \A i \in 1..Len(types) : types[i] = firstType

getRealTypeNanLast(value) ==
    LET type == TypeOf(value)
    IN  CASE type = "number" ->
               IF ~IsFinite(value) THEN "Infinity"
               ELSE IF IsNaN(value) THEN "NaN"
               ELSE type
          [] type = "object" ->
               IF IsArray(value) THEN "array"
               ELSE IF StrictEq(value, Null) THEN "null"
               ELSE IF InstanceOf(value, "Date") THEN "date"
               ELSE IF InstanceOf(value, "RegExp") THEN "regexp"
               ELSE IF InstanceOf(value, "Set") THEN "set"
               ELSE IF InstanceOf(value, "Map") THEN "map"
               ELSE type
          [] OTHER -> type

getRealType(value) ==
    LET type == TypeOf(value)
    IN  CASE type = "number" ->
               IF IsNaN(value) THEN "NaN"
               ELSE IF ~IsFinite(value) THEN "Infinity"
               ELSE type
          [] type = "object" ->
               IF IsArray(value) THEN "array"
               ELSE IF StrictEq(value, Null) THEN "null"
               ELSE IF InstanceOf(value, "Date") THEN "date"
               ELSE IF InstanceOf(value, "RegExp") THEN "regexp"
               ELSE IF InstanceOf(value, "Set") THEN "set"
               ELSE IF InstanceOf(value, "Map") THEN "map"
               ELSE type
          [] OTHER -> type

getRealTypesOfItems(arr) == [i \in 1..Len(arr) |-> getRealType(arr[i])]

everyItemHasAUniqueRealTypeBasic(arr) ==
    LET types == getTypesOfItems(arr)
        set == {types[i] : i \in 1..Len(types)}
    IN  Cardinality(set) = Len(arr)

everyItemHasAUniqueRealType(arr) ==
    LET types == getRealTypesOfItems(arr)
        set == {types[i] : i \in 1..Len(types)}
    IN  Cardinality(set) = Len(arr)

\* The UTF-16 code units of the strings that can be a key of dict.
CodeUnits(t) ==
    CASE t = "boolean"   -> <<98, 111, 111, 108, 101, 97, 110>>
      [] t = "number"    -> <<110, 117, 109, 98, 101, 114>>
      [] t = "string"    -> <<115, 116, 114, 105, 110, 103>>
      [] t = "object"    -> <<111, 98, 106, 101, 99, 116>>
      [] t = "function"  -> <<102, 117, 110, 99, 116, 105, 111, 110>>
      [] t = "undefined" -> <<117, 110, 100, 101, 102, 105, 110, 101, 100>>
      [] t = "symbol"    -> <<115, 121, 109, 98, 111, 108>>
      [] t = "bigint"    -> <<98, 105, 103, 105, 110, 116>>
      [] t = "array"     -> <<97, 114, 114, 97, 121>>
      [] t = "null"      -> <<110, 117, 108, 108>>
      [] t = "NaN"       -> <<78, 97, 78>>
      [] t = "Infinity"  -> <<73, 110, 102, 105, 110, 105, 116, 121>>
      [] t = "date"      -> <<100, 97, 116, 101>>
      [] t = "regexp"    -> <<114, 101, 103, 101, 120, 112>>
      [] t = "set"       -> <<115, 101, 116>>
      [] t = "map"       -> <<109, 97, 112>>

\* x > y on two strings: the first differing code unit decides, a proper
\* prefix is the smaller.
RECURSIVE UnitsGreater(_, _)
UnitsGreater(x, y) ==
    IF x = <<>> THEN FALSE
    ELSE IF y = <<>> THEN TRUE
    ELSE IF Head(x) # Head(y) THEN Head(x) > Head(y)
    ELSE UnitsGreater(Tail(x), Tail(y))

StrGreater(x, y) == UnitsGreater(CodeUnits(x), CodeUnits(y))

compareEntriesDescending(a, b) == IF StrGreater(b[1], a[1]) THEN 1 ELSE -1

\* the comparator handed to sort: (a, b) => (a[0] > b[0] ? 1 : -1)
compareEntries(a, b) == IF StrGreater(a[1], b[1]) THEN 1 ELSE -1

\* dict[type] ??= 0; dict[type] += 1, dict kept as its entries in key
\* insertion order (Object.entries order of non-index string keys)
Bump(dict, type) ==
    IF \E k \in 1..Len(dict) : dict[k][1] = type
    THEN [k \in 1..Len(dict) |->
            IF dict[k][1] = type THEN <<type, dict[k][2] + 1>> ELSE dict[k]]
    ELSE Append(dict, <<type, 0 + 1>>)

RECURSIVE CountInto(_, _)
CountInto(dict, types) ==
    IF types = <<>> THEN dict
    ELSE CountInto(Bump(dict, Head(types)), Tail(types))

\* Array.prototype.sort with a comparator: e goes before the first entry
\* the comparator puts it ahead of.
RECURSIVE InsertSorted(_, _)
InsertSorted(sorted, e) ==
    IF sorted = <<>> THEN <<e>>
    ELSE IF compareEntries(e, Head(sorted)) < 0 THEN <<e>> \o sorted
    ELSE <<Head(sorted)>> \o InsertSorted(Tail(sorted), e)

RECURSIVE SortEntries(_)
SortEntries(entries) ==
    IF entries = <<>> THEN <<>>
    ELSE InsertSorted(SortEntries(SubSeq(entries, 1, Len(entries) - 1)),
                      entries[Len(entries)])

countRealTypesUnsorted(arr) == CountInto(<<>>, getRealTypesOfItems(arr))

countRealTypes(arr) ==
    LET types == getRealTypesOfItems(arr)
        dict == CountInto(<<>>, types)
    IN  SortEntries(dict)

----------------------------------------------------------------------------
(* The comparator.                                                         *)

\* Array.prototype.flat() with its default depth 1: an element that is an
\* array is replaced by its elements, any other element is kept.
RECURSIVE Flat(_)
Flat(elems) ==
    IF elems = <<>> THEN <<>>
    ELSE (IF IsArray(Head(elems)) THEN Head(elems).elems ELSE <<Head(elems)>>)
         \o Flat(Tail(elems))

\* arr[i], i counted from 0: undefined past the end
At(arr, i) == IF i < Len(arr) THEN arr[i + 1] ELSE Undefined

\* for (let i = from; i < n; i++) if (firstArr[i] !== secondArr[i]) return false;
\* return true
RECURSIVE CompareLoop(_, _, _, _)
CompareLoop(firstArr, secondArr, i, n) ==
    IF ~(i < n) THEN TRUE
    ELSE IF ~StrictEq(At(firstArr, i), At(secondArr, i)) THEN FALSE
    ELSE CompareLoop(firstArr, secondArr, i + 1, n)

areEqualNoFlat(a, b) ==
    IF IsArray(a) /\ IsArray(b)
    THEN IF Len(a.elems) # Len(b.elems) THEN FALSE
         ELSE CompareLoop(a.elems, b.elems, 0, Len(a.elems))
    ELSE StrictEq(a, b)

areEqual(a, b) ==
    IF IsArray(a) /\ IsArray(b)
    THEN IF Len(a.elems) # Len(b.elems) THEN FALSE
         ELSE LET firstArr == Flat(a.elems)
                  secondArr == Flat(b.elems)
              IN  CompareLoop(firstArr, secondArr, 0, Len(a.elems))
    ELSE StrictEq(a, b)

----------------------------------------------------------------------------
(* The reporter.  A console entry records the console method that printed  *)
(* it, the fixed text (head) and the interpolated text (text) of a printed *)
(* string, the value of a printed value, and the number of groups open     *)
(* when it was printed (its indentation).                                  *)

Entry(method, head, text, val, depth) ==
    [method |-> method, head |-> head, text |-> text, val |-> val, depth |-> depth]

\* console.groupEnd(): closes the innermost group, nothing when none is open
GroupEnd(g) == IF g > 0 THEN g - 1 ELSE 0

testBlockNoGroupEnd(o, g, name) ==
    [out |-> Append(o, Entry("group", "# ", name, Undefined, g)),
     groups |-> g + 1]

\* testBlock(name) on console (o, g): the console after it
testBlock(o, g, name) ==
    LET closed == GroupEnd(g)
    IN  [out |-> Append(o, Entry("group", "# ", name, Undefined, closed)),
         groups |-> closed + 1]

testThrowsOnFail(o, g, whatWeTest, actualResult, expectedResult) ==
    IF areEqual(actualResult, expectedResult)
    THEN [out |-> Append(o, Entry("log", "[OK] ", whatWeTest, Undefined, g)),
          completion |-> "normal"]
    ELSE [out |-> o \o << Entry("error", "[FAIL] ", whatWeTest, Undefined, g),
                          Entry("debug", "Expected:", "", Undefined, g),
                          Entry("debug", "", "", expectedResult, g),
                          Entry("debug", "Actual:", "", Undefined, g),
                          Entry("debug", "", "", actualResult, g),
                          Entry("log", "", "", Undefined, g) >>,
          completion |-> "throw"]

\* test(whatWeTest, actualResult, expectedResult) on console (o, g): the
\* console output after it and how the call completed
test(o, g, whatWeTest, actualResult, expectedResult) ==
    IF areEqual(actualResult, expectedResult)
    THEN [out |-> Append(o, Entry("log", "[OK] ", whatWeTest, Undefined, g)),
          completion |-> "normal"]
    ELSE [out |-> o \o << Entry("error", "[FAIL] ", whatWeTest, Undefined, g),
                          Entry("debug", "Expected:", "", Undefined, g),
                          Entry("debug", "", "", expectedResult, g),
                          Entry("debug", "Actual:", "", Undefined, g),
                          Entry("debug", "", "", actualResult, g),
                          Entry("log", "", "", Undefined, g) >>,
          completion |-> "normal"]

----------------------------------------------------------------------------
(* Inputs.                                                                 *)

SeqsUpTo(S, n) == UNION {[1..k -> S] : k \in 0..n}

\* Every shape of value the classifier tells apart: the primitives, a
\* function, and the objects with every combination of Array-ness and
\* prototype chain (a chain can hold several of the four prototypes, and an
\* array can be given any of them, by Object.setPrototypeOf).  The
\* classifier never reads an identity, so they share one.
TypeValues ==
    {Undefined, Null, Bool(TRUE), Bool(FALSE), Num(8), NumNaN, PosInf, NegInf,
     Str("home"), BigInt(11), Sym(1), Func(1)}
    \cup {Val("Object", 0, "", 1, FALSE, isArr, c, <<>>) :
            isArr \in BOOLEAN, c \in SUBSET Classes}

\* The items of the arrays handed to the classifier's array functions.
ItemValues ==
    {Bool(TRUE), Bool(FALSE), Num(8), NumNaN, PosInf, NegInf, Str("home"),
     Undefined, Null, Obj(1, {}), Arr(1, <<>>), Func(1), Sym(1), BigInt(11),
     Obj(1, {"Date"}), Obj(1, {"RegExp"}), Obj(1, {"Set"}), Obj(1, {"Map"})}

TypeInputs == TypeValues \cup {Arr(1, items) : items \in SeqsUpTo(ItemValues, MaxLen)}

\* Identities.  The objects that exist before the call have the identities
\* 1 and 2; an array or object literal (ref 0) gets a fresh identity when it
\* is evaluated: the literal at the root gets the identity root, its i-th
\* element root * RefRadix + i, and so on, which are all different.
RefRadix == MaxTop + 8

RECURSIVE Alloc(_, _)
Alloc(v, root) ==
    IF v.kind = "Object" /\ v.ref = 0
    THEN [v EXCEPT !.ref = root,
                   !.elems = [i \in 1..Len(v.elems) |->
                                Alloc(v.elems[i], root * RefRadix + i)]]
    ELSE v

\* A separately built value with the same contents: every object of it is
\* a new object.
RECURSIVE Copy(_, _)
Copy(v, root) ==
    IF v.kind = "Object"
    THEN [v EXCEPT !.ref = root,
                   !.elems = [i \in 1..Len(v.elems) |->
                                Copy(v.elems[i], root * RefRadix + i)]]
    ELSE v

ObjLit == Obj(0, {})
ArrLit(e) == Arr(0, e)
SharedObj == Obj(1, {})
SharedArr == Arr(2, <<Num(1)>>)

EqAtoms == {Num(1), Num(2), NumNaN, Str("a"), Undefined, ObjLit, SharedObj}

\* The arrays found inside the arrays handed to areEqual: empty, flat,
\* (label, count) pairs, holding NaN, holding an object, nested once more.
EqInner ==
    {ArrLit(<<>>), ArrLit(<<Num(1)>>), ArrLit(<<Num(1), Num(2)>>),
     ArrLit(<<Str("a"), Num(1)>>), ArrLit(<<Str("a"), Num(2)>>),
     ArrLit(<<NumNaN>>), ArrLit(<<ObjLit>>), ArrLit(<<ArrLit(<<Num(1)>>)>>),
     SharedArr}

EqLiterals ==
    EqAtoms \cup {ArrLit(e) : e \in SeqsUpTo(EqAtoms \cup EqInner, MaxTop)}

\* The literals of at most one element.
EqProbes == EqAtoms \cup {ArrLit(e) : e \in SeqsUpTo(EqAtoms \cup EqInner, 1)}

\* The values that differ from a copy of v in exactly one element, at any
\* depth, the new element drawn from EqAtoms and not a copy of the old one.
RECURSIVE SameContents(_, _)
SameContents(a, b) ==
    /\ [a EXCEPT !.ref = 0, !.elems = <<>>] = [b EXCEPT !.ref = 0, !.elems = <<>>]
    /\ Len(a.elems) = Len(b.elems)
    /\ \A i \in 1..Len(a.elems) : SameContents(a.elems[i], b.elems[i])

RECURSIVE Changed(_)
Changed(v) ==
    IF ~IsArray(v) THEN {}
    ELSE UNION {
           {[v EXCEPT !.elems[i] = Alloc(x, v.ref * RefRadix + MaxTop + 3)] :
                x \in {y \in EqAtoms : ~SameContents(y, v.elems[i])}}
           \cup {[v EXCEPT !.elems[i] = w] : w \in Changed(v.elems[i])}
         : i \in 1..Len(v.elems)}

\* The calls a script is made of.
Call(fn, name, a, e) == [fn |-> fn, name |-> name, actual |-> a, expected |-> e]

Calls ==
    {Call("testBlock", name, Undefined, Undefined) : name \in {"getType", "countRealTypes"}}
    \cup {Call("test", name, Alloc(p[1], 3), Alloc(p[2], 4)) :
            name \in {"Boolean", "Number"},
            p \in {<<Str("boolean"), Str("boolean")>>,
                   <<Str("object"), Str("array")>>,
                   <<ArrLit(<<Str("a"), Num(1)>>), ArrLit(<<Str("a"), Num(1)>>)>>}}

Scripts == SeqsUpTo(Calls, MaxScript)

----------------------------------------------------------------------------
(* SpecTypes: one classifier function applied to one input.                *)

InitTypes ==
    /\ input \in TypeInputs
    /\ op = "none"
    /\ res = "none"
    /\ actual = Undefined
    /\ expected = Undefined
    /\ script = <<>>
    /\ pc = 1
    /\ out = <<>>
    /\ groups = 0

Apply(name, result) ==
    /\ op = "none"
    /\ op' = name
    /\ res' = result
    /\ UNCHANGED <<input, actual, expected, script, pc, out, groups>>

CallGetType == Apply("getType", getType(input))

CallGetRealType == Apply("getRealType", getRealType(input))

CallGetTypesOfItems ==
    IsArray(input) /\ Apply("getTypesOfItems", getTypesOfItems(input.elems))

CallAllItemsHaveTheSameType ==
    IsArray(input) /\ Apply("allItemsHaveTheSameType", allItemsHaveTheSameType(input.elems))

CallGetRealTypesOfItems ==
    IsArray(input) /\ Apply("getRealTypesOfItems", getRealTypesOfItems(input.elems))

CallEveryItemHasAUniqueRealType ==
    IsArray(input)
    /\ Apply("everyItemHasAUniqueRealType", everyItemHasAUniqueRealType(input.elems))

CallCountRealTypes ==
    IsArray(input) /\ Apply("countRealTypes", countRealTypes(input.elems))

NextTypes ==
    \/ CallGetType
    \/ CallGetRealType
    \/ CallGetTypesOfItems
    \/ CallAllItemsHaveTheSameType
    \/ CallGetRealTypesOfItems
    \/ CallEveryItemHasAUniqueRealType
    \/ CallCountRealTypes

SpecTypes == InitTypes /\ [][NextTypes]_vars

----------------------------------------------------------------------------
(* SpecEqual: one call test(whatWeTest, actual, expected).  The expected   *)
(* value is any literal; the actual value is the expected value itself, a  *)
(* separately built copy of it, such a copy with one element changed, or   *)
(* an unrelated literal.                                                   *)

Actuals(e) ==
    {e, Copy(e, 4)} \cup Changed(Copy(e, 4)) \cup {Alloc(l, 4) : l \in EqProbes}

InitEqual ==
    /\ expected \in {Alloc(l, 3) : l \in EqLiterals}
    /\ actual = Undefined
    /\ pc = 1
    /\ out = <<>>
    /\ groups = 0
    /\ input = Undefined
    /\ op = "none"
    /\ res = "none"
    /\ script = <<>>

CallTest ==
    /\ pc = 1
    /\ \E a \in Actuals(expected) :
         LET r == test(out, groups, "round trip", a, expected)
         IN  /\ actual' = a
             /\ out' = r.out
             /\ pc' = IF r.completion = "normal" THEN pc + 1 ELSE 0
    /\ UNCHANGED <<input, op, res, expected, script, groups>>

NextEqual == CallTest

SpecEqual == InitEqual /\ [][NextEqual]_vars

----------------------------------------------------------------------------
(* Spec: a script of testBlock(...) and test(...) calls, run in order.     *)

Init ==
    /\ script \in Scripts
    /\ pc = 1
    /\ out = <<>>
    /\ groups = 0
    /\ input = Undefined
    /\ op = "none"
    /\ res = "none"
    /\ actual = Undefined
    /\ expected = Undefined

RunTestBlock ==
    /\ pc \in 1..Len(script)
    /\ script[pc].fn = "testBlock"
    /\ LET r == testBlock(out, groups, script[pc].name)
       IN  /\ out' = r.out
           /\ groups' = r.groups
    /\ pc' = pc + 1
    /\ UNCHANGED <<input, op, res, actual, expected, script>>

RunTest ==
    /\ pc \in 1..Len(script)
    /\ script[pc].fn = "test"
    /\ LET r == test(out, groups, script[pc].name, script[pc].actual, script[pc].expected)
       IN  /\ out' = r.out
           /\ pc' = IF r.completion = "normal" THEN pc + 1 ELSE 0
    /\ UNCHANGED <<input, op, res, actual, expected, script, groups>>

Next == RunTestBlock \/ RunTest

Spec == Init /\ [][Next]_vars

----------------------------------------------------------------------------
(* Properties of the classifier, checked under SpecTypes.                  *)

\* C1: getRealType(v) is the label of the first check that matches: for a
\* number NaN, then non-finite ("Infinity" for +Infinity and -Infinity),
\* else "number"; for an object array, null, date, regexp, set, map, else
\* "object"; for every other basic type the label is getType(v).
C1_RealTypeFirstMatch ==
    op = "getRealType" =>
        LET v == input
            b == getType(v)
            plain == b = "object" /\ ~v.isArray /\ v.kind # "Null"
        IN  /\ res = "NaN" <=> (b = "number" /\ v.s = "NaN")
            /\ res = "Infinity" <=> (b = "number" /\ v.s \in {"+Inf", "-Inf"})
            /\ res = "number" <=> (b = "number" /\ v.s = "fin")
            /\ res = "array" <=> (b = "object" /\ v.isArray)
            /\ res = "null" <=> v.kind = "Null"
            /\ res = "date" <=> (plain /\ "Date" \in v.inst)
            /\ res = "regexp" <=> (plain /\ v.inst \cap {"Date", "RegExp"} = {"RegExp"})
            /\ res = "set" <=> (plain /\ v.inst \cap {"Date", "RegExp", "Set"} = {"Set"})
            /\ res = "map" <=> (plain /\ v.inst = {"Map"})
            /\ res = "object" <=> (plain /\ v.inst = {})
            /\ b \notin {"number", "object"} => res = b

\* an object with both Date.prototype and RegExp.prototype on its chain was
\* classified: the earlier check won
C1_Witness ==
    /\ op = "getRealType"
    /\ input.kind = "Object"
    /\ ~input.isArray
    /\ {"Date", "RegExp"} \subseteq input.inst
    /\ res = "date"

\* The labels in ascending order of their UTF-16 code units.
LabelOrder ==
    <<"Infinity", "NaN", "array", "bigint", "boolean", "date", "function", "map",
      "null", "number", "object", "regexp", "set", "string", "symbol", "undefined">>

Rank(label) == CHOOSE k \in 1..Len(LabelOrder) : LabelOrder[k] = label

Occurrences(arr, label) == Cardinality({i \in 1..Len(arr) : getRealType(arr[i]) = label})

RECURSIVE SumCounts(_)
SumCounts(pairs) == IF pairs = <<>> THEN 0 ELSE Head(pairs)[2] + SumCounts(Tail(pairs))

\* C2: countRealTypes(arr) holds exactly one (label, count) pair for each
\* real type occurring in arr, the count being the number of its elements
\* of that type, the pairs strictly ascending by label; the counts sum to
\* the length of arr and the result of the empty array is empty.
C2_CountRealTypes ==
    op = "countRealTypes" =>
        LET arr == input.elems
            labels == {getRealType(arr[i]) : i \in 1..Len(arr)}
        IN  /\ {res[k][1] : k \in 1..Len(res)} = labels
            /\ Len(res) = Cardinality(labels)
            /\ \A k \in 1..Len(res) : res[k][2] = Occurrences(arr, res[k][1])
            /\ \A k \in 1..(Len(res) - 1) : Rank(res[k][1]) < Rank(res[k + 1][1])
            /\ SumCounts(res) = Len(arr)
            /\ arr = <<>> => res = <<>>

\* a repeated type, and types met in descending order of label
C2_Witness ==
    /\ op = "countRealTypes"
    /\ Len(input.elems) = 3
    /\ res = << <<"NaN", 1>>, <<"boolean", 2>> >>
    /\ getRealType(input.elems[1]) = "boolean"

\* C3: everyItemHasAUniqueRealType(arr) is true exactly when no two
\* elements at different positions have the same real type; it is true of
\* the empty array.
C3_UniqueRealTypes ==
    op = "everyItemHasAUniqueRealType" =>
        LET arr == input.elems
        IN  /\ res <=> \A i, j \in 1..Len(arr) :
                          i # j => getRealType(arr[i]) # getRealType(arr[j])
            /\ arr = <<>> => res

\* two numbers of different real types (8 and NaN) count as unique
C3_Witness ==
    /\ op = "everyItemHasAUniqueRealType"
    /\ res
    /\ \E i, j \in 1..Len(input.elems) :
         /\ i # j
         /\ getType(input.elems[i]) = getType(input.elems[j])

\* C4: allItemsHaveTheSameType(arr) is true exactly when every element has
\* the basic type of the first one; it is true of the empty array and of
\* every one-element array, and NaN, the infinities and the finite numbers
\* are all of the one basic type "number".
C4_SameBasicType ==
    op = "allItemsHaveTheSameType" =>
        LET arr == input.elems
        IN  /\ Len(arr) <= 1 => res
            /\ Len(arr) >= 1 =>
                 (res <=> \A i \in 1..Len(arr) : getType(arr[i]) = getType(arr[1]))
            /\ (\A i \in 1..Len(arr) : arr[i].kind = "Number") => res

\* NaN, an infinity and a finite number together
C4_Witness ==
    /\ op = "allItemsHaveTheSameType"
    /\ res
    /\ {input.elems[i] : i \in 1..Len(input.elems)} = {Num(8), NumNaN, PosInf}

\* C10: countRealTypes gives every permutation of arr the result it gives
\* arr, pairs and order alike.
C10_PermutationInvariant ==
    op = "countRealTypes" =>
        LET arr == input.elems
        IN  \A f \in Permutations(1..Len(arr)) :
              countRealTypes([i \in 1..Len(arr) |-> arr[f[i]]]) = res

\* the types are met in an order that is not the order of the result
C10_Witness ==
    /\ op = "countRealTypes"
    /\ Len(res) >= 2
    /\ getRealType(input.elems[1]) = res[Len(res)][1]

----------------------------------------------------------------------------
(* Properties of test and areEqual, checked under SpecEqual.               *)

Called == pc = 2

PassOutput == <<Entry("log", "[OK] ", "round trip", Undefined, 0)>>

FailOutput ==
    <<Entry("error", "[FAIL] ", "round trip", Undefined, 0),
      Entry("debug", "Expected:", "", Undefined, 0),
      Entry("debug", "", "", expected, 0),
      Entry("debug", "Actual:", "", Undefined, 0),
      Entry("debug", "", "", actual, 0),
      Entry("log", "", "", Undefined, 0)>>

\* a boolean, a number other than NaN, a string, a bigint, undefined or null
PlainPrimitive(v) ==
    \/ v.kind \in {"Undefined", "Null", "Boolean", "String", "BigInt"}
    \/ v.kind = "Number" /\ v.s # "NaN"

\* a sequence of plain primitives
PlainFlat(v) ==
    IsArray(v) /\ \A i \in 1..Len(v.elems) : PlainPrimitive(v.elems[i])

\* a plain primitive, or a sequence of plain primitives and of sequences of
\* plain primitives
PlainValue(v) ==
    \/ PlainPrimitive(v)
    \/ /\ IsArray(v)
       /\ \A i \in 1..Len(v.elems) : PlainPrimitive(v.elems[i]) \/ PlainFlat(v.elems[i])

\* C5, as stated: test(description, v', v) with v' a separately built copy
\* of v, whatever v is (NaN, a plain object and a sequence nested two levels
\* deep included), prints the [OK] line.
C5_CopyAlwaysPasses ==
    (Called /\ actual = Copy(expected, 4)) => out = PassOutput

\* C5, amended: test(description, v', v) with v' a separately built copy of
\* v prints the [OK] line when v is a boolean, a number other than NaN, a
\* string, a bigint, undefined or null, or a sequence whose elements are
\* such primitives or sequences of such primitives.
C5_PlainCopyPasses ==
    (Called /\ actual = Copy(expected, 4) /\ PlainValue(expected)) => out = PassOutput

\* the copy of a sequence that holds two nested sequences passed
C5_Witness ==
    /\ Called
    /\ actual = Copy(expected, 4)
    /\ PlainValue(expected)
    /\ Len(expected.elems) = 2
    /\ \A i \in 1..2 : IsArray(expected.elems[i]) /\ Len(expected.elems[i].elems) = 2
    /\ \A i \in 1..2 : actual.elems[i].ref # expected.elems[i].ref
    /\ out = PassOutput

\* C6: test(description, w, v) with w a copy of the sequence v in which one
\* element, at any depth, was changed to a different value prints the
\* [FAIL] line followed by the expected and the actual value.
C6_ChangedElementFails ==
    (Called /\ actual \in Changed(Copy(expected, 4))) => out = FailOutput

\* C8: areEqual(a, b) of two sequences is true exactly when they have the
\* same length and their flattened forms have the same length and are
\* strictly equal at every index; otherwise it is a === b.
C8_FlattenedEquality ==
    Called =>
        LET a == actual
            b == expected
            fa == Flat(a.elems)
            fb == Flat(b.elems)
            passed == out = PassOutput
        IN  IF IsArray(a) /\ IsArray(b)
            THEN passed <=> /\ Len(a.elems) = Len(b.elems)
                            /\ Len(fa) = Len(fb)
                            /\ \A i \in 1..Len(fa) : StrictEq(fa[i], fb[i])
            ELSE passed <=> StrictEq(a, b)

----------------------------------------------------------------------------
(* Properties of the reporter, checked under Spec.                         *)

Executed == IF pc = 0 THEN <<>> ELSE SubSeq(script, 1, pc - 1)

IsTestCall(c) == c.fn = "test"
IsBlockCall(c) == c.fn = "testBlock"
IsVerdict(e) == e.head \in {"[OK] ", "[FAIL] "}
IsHeader(e) == e.method = "group"

Verdict(c) == IF areEqual(c.actual, c.expected) THEN "[OK] " ELSE "[FAIL] "

RECURSIVE EntriesDue(_)
EntriesDue(calls) ==
    IF calls = <<>> THEN 0
    ELSE (IF IsBlockCall(Head(calls)) THEN 1
          ELSE IF Verdict(Head(calls)) = "[OK] " THEN 1 ELSE 6)
         + EntriesDue(Tail(calls))

\* C7: every test(...) call of the script is reported once, in call order,
\* [OK] when areEqual(actual, expected) and [FAIL] otherwise; no call
\* raises, so a failure stops no later call; and nothing but the calls'
\* own entries is printed (no total).
C7_EveryCallReported ==
    /\ pc # 0
    /\ LET verdicts == SelectSeq(out, IsVerdict)
           tests == SelectSeq(Executed, IsTestCall)
       IN  /\ Len(verdicts) = Len(tests)
           /\ \A k \in 1..Len(tests) :
                /\ verdicts[k].head = Verdict(tests[k])
                /\ verdicts[k].text = tests[k].name
                /\ verdicts[k].method = IF Verdict(tests[k]) = "[OK] " THEN "log" ELSE "error"
    /\ Len(out) = EntriesDue(Executed)

\* a script ran to its end, a failed assertion followed by a passed one
C7_Witness ==
    /\ pc = Len(script) + 1
    /\ \E i, j \in 1..Len(script) :
         /\ i < j
         /\ IsTestCall(script[i]) /\ Verdict(script[i]) = "[FAIL] "
         /\ IsTestCall(script[j]) /\ Verdict(script[j]) = "[OK] "
    /\ Len(SelectSeq(out, IsVerdict)) >= 2

Marker(e) == <<e.method = "group", e.text>>
CallMarker(c) == <<IsBlockCall(c), c.name>>
IsMarker(e) == IsHeader(e) \/ IsVerdict(e)

\* C9: no group is open before the first testBlock call and exactly one
\* after every testBlock call; test opens and closes none; every header is
\* printed at the top level and every assertion's entries inside the group
\* of the most recent testBlock call; headers and assertions appear in call
\* order.
C9_OneOpenGroup ==
    /\ groups = IF SelectSeq(Executed, IsBlockCall) = <<>> THEN 0 ELSE 1
    /\ LET marks == SelectSeq(out, IsMarker)
       IN  /\ Len(marks) = Len(Executed)
           /\ \A k \in 1..Len(marks) : Marker(marks[k]) = CallMarker(Executed[k])
    /\ \A k \in 1..Len(out) :
         out[k].depth = IF IsHeader(out[k]) THEN 0
                        ELSE IF \E j \in 1..(k - 1) : IsHeader(out[j]) THEN 1
                        ELSE 0

\* an assertion reported inside the second of two sections
C9_Witness ==
    /\ pc = 4
    /\ IsBlockCall(script[1])
    /\ IsBlockCall(script[2])
    /\ IsTestCall(script[3])
    /\ groups = 1
    /\ out[Len(out)].depth = 1

====
